---- MODULE Spec2Model ----
(***************************************************************************)
(* Ledger reconstruction of the loan backend: the enrichment of            *)
(* GET /api/loans (event normalisation, day-count simple interest, payment *)
(* allocation, top-ups, 30-day minimum interest, per-record catch) and of  *)
(* GET /api/deposits (balance reconstruction).                             *)
(*                                                                         *)
(* Money is a JavaScript Number in the source.  It is modelled by exact    *)
(* rationals <<numerator, denominator>> in lowest terms, so that           *)
(* dailyRate = interestRate / 365 / 100 is computed as the source writes   *)
(* it; binary rounding of doubles is outside the model.                    *)
(* Instants are integers counting ticks of 1/TicksPerDay day (the source   *)
(* counts milliseconds); instant 0 is the epoch new Date(0).               *)
(***************************************************************************)
EXTENDS Integers, Sequences, FiniteSets, TLC

\* ------------------------------------------------------------ bounds
TicksPerDay == 2      \* resolution of an instant: ticks per day
MaxEvents == 2        \* longest partialRepayments list of the single-loan inputs
MaxBatch == 2         \* longest batch of the multi-record inputs
MaxTx == 2            \* longest transactions list of a deposit

\* ------------------------------------------------- program constants
YearDays == 365       \* part_000:353
Percent == 100        \* part_000:353
MinDays == 30         \* part_000:404, 405

\* --------------------------------------------------------- rationals
Abs(n) == IF n < 0 THEN -n ELSE n

RECURSIVE GCD(_, _)
GCD(a, b) == IF b = 0 THEN a ELSE GCD(b, a % b)

\* n/d in lowest terms with a positive denominator (d # 0)
Norm(n, d) ==
  LET g == GCD(Abs(n), Abs(d))
      s == IF d < 0 THEN -1 ELSE 1
  IN  IF n = 0 THEN <<0, 1>> ELSE <<s * (n \div g), s * (d \div g)>>

R(n) == <<n, 1>>
Zero == R(0)
LCM(a, b) == (a \div GCD(a, b)) * b

RAdd(x, y) ==
  LET l == LCM(x[2], y[2])
  IN  Norm(x[1] * (l \div x[2]) + y[1] * (l \div y[2]), l)
RNeg(x) == <<-x[1], x[2]>>
RSub(x, y) == RAdd(x, RNeg(y))
RMul(x, y) ==
  LET g1 == GCD(Abs(x[1]), y[2])
      g2 == GCD(Abs(y[1]), x[2])
      a == IF x[1] = 0 THEN 0 ELSE x[1] \div g1
      b == IF y[1] = 0 THEN 0 ELSE y[1] \div g2
  IN  IF x[1] = 0 \/ y[1] = 0 THEN Zero
      ELSE Norm(a * b, (x[2] \div g2) * (y[2] \div g1))
RDiv(x, y) == RMul(x, Norm(y[2], y[1]))
RLt(x, y) ==
  LET l == LCM(x[2], y[2])
  IN  x[1] * (l \div x[2]) < y[1] * (l \div y[2])
RGt(x, y) == RLt(y, x)
RLe(x, y) == ~RLt(y, x)
\* Math.min
RMin(x, y) == IF RLt(y, x) THEN y ELSE x

\* ------------------------------------------------------------- dates
\* new Date(v): a time value, or Invalid Date (valid = FALSE, time value NaN)
DateOf(t) == [valid |-> TRUE, t |-> t]
InvalidDate == [valid |-> FALSE, t |-> 0]
Day(n) == n * TicksPerDay

\* Math.max(0, Math.floor((to - from) / (1000*60*60*24))) as used in
\* `days > 0`: with a NaN operand the result is NaN and NaN > 0 is false,
\* which is the same branch as 0.  nan records that the count was NaN.
DaysBetween(from, to) ==
  IF from.valid /\ to.valid
  THEN [nan |-> FALSE, n |-> IF (to.t - from.t) \div TicksPerDay < 0 THEN 0
                             ELSE (to.t - from.t) \div TicksPerDay]
  ELSE [nan |-> TRUE, n |-> 0]

\* ------------------------------------------------------ stored data
\* One entry of partialRepayments.  null: the entry itself is null;
\* date: "ok" (a date, time value t), "missing" (e.date falsy), "invalid"
\* (a truthy value new Date() cannot parse); conv: "num" (Number(amount) is
\* amount) or "throws" (the numeric conversion of the stored value throws).
Ev(a, t) == [null |-> FALSE, amount |-> a, conv |-> "num", date |-> "ok", t |-> t]
EvNoDate(a) == [null |-> FALSE, amount |-> a, conv |-> "num", date |-> "missing", t |-> 0]
EvBadDate(a) == [null |-> FALSE, amount |-> a, conv |-> "num", date |-> "invalid", t |-> 0]
EvThrows(t) == [null |-> FALSE, amount |-> 0, conv |-> "throws", date |-> "ok", t |-> t]
NullEntry == [null |-> TRUE, amount |-> 0, conv |-> "num", date |-> "missing", t |-> 0]

\* new Date(ev.date) for an entry that passed the filter
EvDate(e) == IF e.date = "ok" THEN DateOf(e.t) ELSE InvalidDate

\* ------------------------------------------------- event normaliser
\* .filter(e => e && e.date)
Keeps(e) == ~e.null /\ e.date # "missing"

FilterEvents(list) == SelectSeq(list, Keeps)

\* the comparator (a, b) => new Date(a.date) - new Date(b.date); a NaN
\* result is taken as +0 by Array.prototype.sort
Cmp(a, b) ==
  IF EvDate(a).valid /\ EvDate(b).valid THEN EvDate(a).t - EvDate(b).t ELSE 0

\* stable insertion: e goes after every element that does not compare greater
RECURSIVE InsertStable(_, _)
InsertStable(sorted, e) ==
  IF sorted = <<>> THEN <<e>>
  ELSE IF Cmp(sorted[Len(sorted)], e) > 0
       THEN Append(InsertStable(SubSeq(sorted, 1, Len(sorted) - 1), e), sorted[Len(sorted)])
       ELSE Append(sorted, e)

\* a normaliser that forgets to sort
NoSort(list) == list
RECURSIVE StableSort(_)
StableSort(list) ==
  IF list = <<>> THEN <<>>
  ELSE InsertStable(StableSort(SubSeq(list, 1, Len(list) - 1)), list[Len(list)])

\* a comparator is consistent on the list when "compares equal" is transitive
ConsistentCmp(list) ==
  \A i, j, k \in 1..Len(list) :
    (Cmp(list[i], list[j]) = 0 /\ Cmp(list[j], list[k]) = 0) => Cmp(list[i], list[k]) = 0

PermsOf(list) ==
  {[i \in 1..Len(list) |-> list[p[i]]] : p \in Permutations(1..Len(list))}

\* Array.prototype.sort: stable for a consistent comparator; with an
\* inconsistent one (an Invalid Date between two different dates) the order
\* is implementation-defined, so every permutation is a possible outcome.
SortOutcomes(list) ==
  IF ConsistentCmp(list) THEN {StableSort(list)} ELSE PermsOf(list)

\* const events = Array.isArray(...) ? [...].filter(...).sort(...) : []
NormalizeOutcomes(raw) == SortOutcomes(FilterEvents(raw))


\* ------------------------------------------------------ loan ledger
\* if (days > 0 && principal > 0) accrued += principal * dailyRate * days
\* (the per-event step and the tail step are the same statement)
\* a day count rounded up instead of down
AccrueCeil(p, acc, rate, from, to) ==
  LET days == DaysBetween(from, to)
  IN  IF ~days.nan /\ days.n > 0 /\ RGt(p, Zero)
      THEN RAdd(acc, RMul(RMul(p, rate), R(days.n + 1)))
      ELSE acc
Accrue(p, acc, rate, from, to) ==
  LET days == DaysBetween(from, to)
  IN  IF ~days.nan /\ days.n > 0 /\ RGt(p, Zero)
      THEN RAdd(acc, RMul(RMul(p, rate), R(days.n)))
      ELSE acc

\* L is the ledger [principal, accrued, interestPaid, extraInterestPaid, lastDate]
\* payment > 0: interest first, then principal, the rest is extra
\* an allocation that retires principal before interest
PayPrincipalFirst(L, payment) ==
  LET principalPortion == RMin(payment, L.principal)
      rest == RSub(payment, principalPortion)
      interestPortion == RMin(rest, L.accrued)
  IN  [L EXCEPT !.principal = RSub(L.principal, principalPortion),
                !.accrued = RSub(L.accrued, interestPortion),
                !.interestPaid = RAdd(L.interestPaid, interestPortion),
                !.extraInterestPaid = RAdd(L.extraInterestPaid, RSub(rest, interestPortion))]
\* an allocation that loses what is left after the principal is retired
DropRemainder(L, payment) ==
  LET interestPortion == RMin(payment, L.accrued)
      pay1 == RSub(payment, interestPortion)
      principalPortion == IF RGt(pay1, Zero) THEN RMin(pay1, L.principal) ELSE Zero
  IN  [L EXCEPT !.accrued = RSub(L.accrued, interestPortion),
                !.interestPaid = RAdd(L.interestPaid, interestPortion),
                !.principal = RSub(L.principal, principalPortion)]
\* an allocation that takes the whole remainder from principal
OverdrawsPrincipal(L, payment) ==
  LET interestPortion == RMin(payment, L.accrued)
      pay1 == RSub(payment, interestPortion)
  IN  [L EXCEPT !.accrued = RSub(L.accrued, interestPortion),
                !.interestPaid = RAdd(L.interestPaid, interestPortion),
                !.principal = RSub(L.principal, pay1)]
AllocatePayment(L, payment) ==
  LET interestPortion == RMin(payment, L.accrued)
      pay1 == RSub(payment, interestPortion)
      principalPortion == IF RGt(pay1, Zero) THEN RMin(pay1, L.principal) ELSE Zero
      pay2 == RSub(pay1, principalPortion)
  IN  [L EXCEPT !.accrued = RSub(L.accrued, interestPortion),
                !.interestPaid = RAdd(L.interestPaid, interestPortion),
                !.principal = RSub(L.principal, principalPortion),
                !.extraInterestPaid = IF RGt(pay2, Zero)
                                      THEN RAdd(L.extraInterestPaid, pay2)
                                      ELSE L.extraInterestPaid]

\* lines 373-394 for one event whose amount converts: top-up, payment or
\* neither, then lastDate = evDate
\* a walk without the top-up branch of lines 374-376
AllocateNoTopUp(L, ev) ==
  LET payment == R(ev.amount)
      M == IF ev.amount > 0 THEN AllocatePayment(L, payment) ELSE L
  IN  [M EXCEPT !.lastDate = EvDate(ev)]
Allocate(L, ev) ==
  LET payment == R(ev.amount)
      M == IF ev.amount < 0 THEN [L EXCEPT !.principal = RAdd(L.principal, RNeg(payment))]
           ELSE IF ev.amount > 0 THEN AllocatePayment(L, payment)
           ELSE L
  IN  [M EXCEPT !.lastDate = EvDate(ev)]

\* the 30-day minimum interest of lines 403-410: the accrued it leaves
\* a floor that forgets the interest already paid
FloorIgnoresPaid(L, amountGiven, rate, start, now) ==
  LET daysSinceStart == DaysBetween(DateOf(start), DateOf(now)).n
      minInterest == RMul(RMul(R(amountGiven), rate), R(MinDays))
  IN  IF daysSinceStart < MinDays /\ RGt(minInterest, L.accrued) THEN minInterest
      ELSE L.accrued
MinInterestFloor(L, amountGiven, rate, start, now) ==
  LET daysSinceStart == DaysBetween(DateOf(start), DateOf(now)).n
      minInterest == RMul(RMul(R(amountGiven), rate), R(MinDays))
      paidSoFar == RAdd(RAdd(L.interestPaid, L.extraInterestPaid), L.accrued)
  IN  IF daysSinceStart < MinDays /\ RGt(minInterest, paidSoFar)
      THEN RAdd(L.accrued, RSub(minInterest, paidSoFar))
      ELSE L.accrued

\* events.filter(e => Number(e.amount || 0) > 0).reduce((s, e) => s + Number(e.amount), 0)
RECURSIVE AmountReceived(_)
AmountReceived(evs) ==
  IF evs = <<>> THEN 0
  ELSE AmountReceived(Tail(evs)) + (IF Head(evs).amount > 0 THEN Head(evs).amount ELSE 0)

\* (loan.interestRate || 0) / 365 / 100
DailyRate(loan) == RDiv(RDiv(R(loan.interestRate), R(YearDays)), R(Percent))

\* the returned views
LoanView(loan, received, remaining, due) ==
  [loan |-> loan, amountReceived |-> received, remainingPrincipal |-> remaining,
   dueAmount |-> due]
\* catch (_): { ...loan, remainingPrincipal: loan.amountGiven, dueAmount: loan.amountGiven }
FallbackView(loan) ==
  LoanView(loan, R(loan.amountReceived), R(loan.amountGiven), R(loan.amountGiven))


\* the ledger of lines 354-357 and 365
InitialLedger(l) ==
  [principal |-> R(l.amountGiven), accrued |-> Zero, interestPaid |-> Zero,
   extraInterestPaid |-> Zero, lastDate |-> DateOf(l.date)]

\* the for loop of lines 366-395 over evs (amounts that convert), from ledger L
RECURSIVE WalkEvents(_, _, _)
WalkEvents(L, rate, evs) ==
  IF evs = <<>> THEN L
  ELSE LET ev == Head(evs)
           A == [L EXCEPT !.accrued = Accrue(L.principal, L.accrued, rate, L.lastDate, EvDate(ev))]
       IN  WalkEvents(Allocate(A, ev), rate, Tail(evs))

\* the whole callback of lines 350-431 on normalised events evs at instant now
Simulate(l, evs, now) ==
  IF \E i \in 1..Len(evs) : evs[i].conv = "throws" THEN FallbackView(l)
  ELSE LET rate == DailyRate(l)
           W == WalkEvents(InitialLedger(l), rate, evs)
           T == [W EXCEPT !.accrued = Accrue(W.principal, W.accrued, rate, W.lastDate, DateOf(now))]
           acc == MinInterestFloor(T, l.amountGiven, rate, l.date, now)
       IN  LoanView(l, R(AmountReceived(evs)), T.principal, RAdd(T.principal, acc))

\* the views the callback can return for loan l at instant now
ViewOutcomes(l, now) ==
  {Simulate(l, evs, now) : evs \in NormalizeOutcomes(l.partialRepayments)}

\* ------------------------------------------------- deposit balance
\* One entry of transactions.  dated: t.dateAD is truthy (time value t);
\* hasBalance: typeof t.balanceAfter === 'number'.
Tx(type, amount, dated, t, hasBalance, balanceAfter) ==
  [null |-> FALSE, type |-> type, amount |-> amount, dated |-> dated, t |-> t,
   hasBalance |-> hasBalance, balanceAfter |-> balanceAfter]
NullTx ==
  [null |-> TRUE, type |-> "Other", amount |-> 0, dated |-> FALSE, t |-> 0,
   hasBalance |-> FALSE, balanceAfter |-> 0]

\* new Date(a.dateAD || 0): the epoch when the date is missing
TxTime(tx) == IF tx.dated THEN tx.t ELSE 0

RECURSIVE InsertTx(_, _)
InsertTx(sorted, tx) ==
  IF sorted = <<>> THEN <<tx>>
  ELSE IF TxTime(sorted[Len(sorted)]) - TxTime(tx) > 0
       THEN Append(InsertTx(SubSeq(sorted, 1, Len(sorted) - 1), tx), sorted[Len(sorted)])
       ELSE Append(sorted, tx)

\* [...d.transactions].sort((a, b) => new Date(a.dateAD || 0) - new Date(b.dateAD || 0))
RECURSIVE SortTx(_)
SortTx(list) ==
  IF list = <<>> THEN <<>>
  ELSE InsertTx(SortTx(SubSeq(list, 1, Len(list) - 1)), list[Len(list)])

\* sorted.reduce((bal, t) => ..., 0)
RECURSIVE FoldBalance(_)
FoldBalance(list) ==
  IF list = <<>> THEN 0
  ELSE LET bal == FoldBalance(SubSeq(list, 1, Len(list) - 1))
           t == list[Len(list)]
       IN  IF t.type = "Deposit" THEN bal + t.amount
           ELSE IF t.type = "Withdrawal" THEN bal - t.amount
           ELSE bal

\* a null entry makes a.dateAD (two or more entries) or last.balanceAfter
\* (a single entry) throw a TypeError inside the try
DepositThrows(txs) == \E i \in 1..Len(txs) : txs[i].null

\* lines 461-477: currentBalance of one deposit
\* a reconstruction that never trusts the recorded balance
BalanceAlwaysFold(d) ==
  IF d.transactions = <<>> \/ DepositThrows(d.transactions) THEN 0
  ELSE FoldBalance(SortTx(d.transactions))
CurrentBalance(d) ==
  IF d.transactions = <<>> THEN 0
  ELSE IF DepositThrows(d.transactions) THEN 0
  ELSE LET sorted == SortTx(d.transactions)
           last == sorted[Len(sorted)]
       IN  IF last.hasBalance THEN last.balanceAfter ELSE FoldBalance(sorted)

DepositView(d, balance) == [deposit |-> d, currentBalance |-> balance]

\* ------------------------------------------------------------ inputs
SeqsUpTo(S, n) == UNION {[1..k -> S] : k \in 0..n}

\* sync (lines 277-282) stores amountReceived as the sum of the positive amounts
Loan(name, amountGiven, interestRate, date, reps) ==
  [name |-> name, amountGiven |-> amountGiven, interestRate |-> interestRate,
   date |-> date, amountReceived |-> AmountReceived(reps), partialRepayments |-> reps]

RawEvents ==
  {Ev(a, t) : a \in {-50, 30, 250}, t \in {Day(10), Day(40)}}
    \cup {Ev(30, Day(10) + 1), Ev(500, Day(10)), Ev(0, Day(10)), EvNoDate(500),
          EvBadDate(30), EvThrows(Day(10)), NullEntry}

\* rate 3650 gives dailyRate = 1/10
LoanTerms == {<<100, 3650, 0>>, <<100, 3650, Day(11)>>, <<0, 3650, 0>>, <<100, 0, 0>>}

SingleLoans ==
  {Loan("a", lt[1], lt[2], lt[3], reps) : lt \in LoanTerms, reps \in SeqsUpTo(RawEvents, MaxEvents)}

BatchLoans ==
  {Loan(n, 100, 3650, 0, reps) :
     n \in {"a", "b"},
     reps \in {<<>>, <<Ev(30, Day(10))>>, <<EvThrows(Day(10))>>,
               <<Ev(-50, Day(10)), Ev(500, Day(40))>>}}

LoanBatches ==
  {<<l>> : l \in SingleLoans} \cup SeqsUpTo(BatchLoans, MaxBatch)

Clocks == {Day(5), Day(29) + 1, Day(45)}

RawTxs ==
  {Tx("Deposit", 100, TRUE, Day(3), FALSE, 0),
   Tx("Withdrawal", 30, TRUE, Day(5), FALSE, 0),
   Tx("Withdrawal", 30, TRUE, Day(3), TRUE, 70),
   Tx("Other", 40, TRUE, Day(5), FALSE, 0),
   Tx("Deposit", 100, FALSE, 0, FALSE, 0),
   Tx("Deposit", 50, FALSE, 0, TRUE, 999),
   Tx("Deposit", 20, TRUE, Day(-1), FALSE, 0),
   Tx("Withdrawal", 10, TRUE, Day(-1), TRUE, 5),
   Tx("Deposit", 60, TRUE, 0, FALSE, 0),
   NullTx}

Deposit(name, txs) == [name |-> name, transactions |-> txs]

SingleDeposits == {Deposit("a", txs) : txs \in SeqsUpTo(RawTxs, MaxTx)}

BatchDeposits ==
  {Deposit(n, txs) :
     n \in {"a", "b"},
     txs \in {<<>>, <<NullTx>>, <<Tx("Deposit", 100, TRUE, Day(3), FALSE, 0)>>,
              <<Tx("Deposit", 100, TRUE, Day(3), FALSE, 0), NullTx>>}}

DepositBatches ==
  {<<d>> : d \in SingleDeposits} \cup SeqsUpTo(BatchDeposits, MaxBatch)


\* ------------------------------------------------------------- state
VARIABLES
  req,                \* the handler running: "loans" or "deposits"
  clock,              \* the ambient clock, what new Date() returns
  loans,              \* the result of Loan.find(query).lean()
  deposits,           \* the result of Deposit.find(query).lean()
  enriched,           \* the views produced so far by .map
  runs,               \* per view: the asOf its callback read and the path it took
  pc,                 \* position: "map", "accrue", "alloc", "floor", "ret", "done"
  asOf, dailyRate, principal, accrued, interestPaid, extraInterestPaid,
  events, lastDate,   \* the callback's locals (lines 352-365)
  ei                  \* index of the event the for loop is at

vars == <<req, clock, loans, deposits, enriched, runs, pc, asOf, dailyRate, principal,
          accrued, interestPaid, extraInterestPaid, events, lastDate, ei>>

locals == <<asOf, dailyRate, principal, accrued, interestPaid, extraInterestPaid,
            events, lastDate, ei>>
inputs == <<req, loans, deposits>>

Ledger ==
  [principal |-> principal, accrued |-> accrued, interestPaid |-> interestPaid,
   extraInterestPaid |-> extraInterestPaid, lastDate |-> lastDate]

\* the record the callback is at
cur == Len(enriched) + 1
loan == loans[cur]

\* the locals are out of scope between two callbacks
NoLocals ==
  /\ asOf' = 0 /\ dailyRate' = Zero /\ principal' = Zero /\ accrued' = Zero
  /\ interestPaid' = Zero /\ extraInterestPaid' = Zero /\ events' = <<>>
  /\ lastDate' = DateOf(0) /\ ei' = 0

Init ==
  /\ req \in {"loans", "deposits"}
  /\ loans \in (IF req = "loans" THEN LoanBatches ELSE {<<>>})
  /\ deposits \in (IF req = "deposits" THEN DepositBatches ELSE {<<>>})
  /\ clock \in (IF req = "loans" THEN Clocks ELSE {Day(5)})
  /\ enriched = <<>> /\ runs = <<>> /\ pc = "map"
  /\ asOf = 0 /\ dailyRate = Zero /\ principal = Zero /\ accrued = Zero
  /\ interestPaid = Zero /\ extraInterestPaid = Zero /\ events = <<>>
  /\ lastDate = DateOf(0) /\ ei = 0

\* --------------------------------------------------- where control is
\* .map has a record left to call the callback on
AtLoan == req = "loans" /\ pc = "map" /\ cur <= Len(loans)
AtDeposit == req = "deposits" /\ pc = "map" /\ cur <= Len(deposits)
\* .map has returned the enriched array
Mapped == pc = "map" /\ cur > (IF req = "loans" THEN Len(loans) ELSE Len(deposits))
\* the for loop has an event left / has run out of events
AtEvent == pc = "accrue" /\ ei <= Len(events)
AfterEvents == pc = "accrue" /\ ei > Len(events)
\* line 373: Number(ev.amount || 0) returns / throws into the catch
Converts == pc = "alloc" /\ events[ei].conv = "num"
\* no try/catch around the callback body: the exception leaves .map
Uncaught == FALSE
Throws == pc = "alloc" /\ events[ei].conv = "throws"
AtFloor == pc = "floor"
AtReturn == pc = "ret"

\* ----------------------------------------------------------- actions
\* Time passes during the loans handler (the deposits handler computes
\* nothing from the clock).  The callback consults an instant at line 352
\* (new Date()) and at lines 397 and 403 (asOf); a tick between two other
\* steps is indistinguishable from a tick just before the next of these,
\* so the clock advances before a callback starts and before the floor.
Tick ==
  /\ req = "loans" /\ pc \in {"map", "floor"} /\ ~Mapped
  /\ \E t \in Clocks : t > clock /\ clock' = t
  /\ UNCHANGED <<inputs, enriched, runs, pc, locals>>

\* [...list] at lines 360 and 465: filter and sort work on a copy, so the
\* stored list is what it was
\* a sort whose result lands in the stored record
SortsStoredList(list, sorted) == sorted
ListAfterSort(list, sorted) == list

\* lines 352-365: the callback's locals, events filtered and sorted
LoanBegin ==
  /\ AtLoan
  /\ asOf' = clock
  /\ dailyRate' = DailyRate(loan)
  /\ principal' = R(loan.amountGiven)
  /\ accrued' = Zero /\ interestPaid' = Zero /\ extraInterestPaid' = Zero
  /\ events' \in NormalizeOutcomes(loan.partialRepayments)
  /\ loans' = [loans EXCEPT ![cur].partialRepayments = ListAfterSort(@, events')]
  /\ lastDate' = DateOf(loan.date)
  /\ ei' = 1
  /\ pc' = "accrue"
  /\ UNCHANGED <<req, deposits, clock, enriched, runs>>

\* lines 367-371: the day count to the event and its interest
LoanAccrue ==
  /\ AtEvent
  /\ accrued' = Accrue(principal, accrued, dailyRate, lastDate, EvDate(events[ei]))
  /\ pc' = "alloc"
  /\ UNCHANGED <<inputs, clock, enriched, runs, asOf, dailyRate, principal, interestPaid,
                 extraInterestPaid, events, lastDate, ei>>

\* lines 373-394: top-up or allocation of the payment, lastDate = evDate
LoanAllocate ==
  /\ Converts
  /\ LET M == Allocate(Ledger, events[ei])
     IN  /\ principal' = M.principal /\ accrued' = M.accrued
         /\ interestPaid' = M.interestPaid /\ extraInterestPaid' = M.extraInterestPaid
         /\ lastDate' = M.lastDate
  /\ ei' = ei + 1
  /\ pc' = "accrue"
  /\ UNCHANGED <<inputs, clock, enriched, runs, asOf, dailyRate, events>>

\* line 373 throws, lines 424-430 return the fallback view
LoanCatch ==
  /\ Throws
  /\ enriched' = Append(enriched, FallbackView(loan))
  /\ runs' = Append(runs, [asOf |-> asOf, path |-> "catch"])
  /\ pc' = "map"
  /\ NoLocals
  /\ UNCHANGED <<inputs, clock>>

\* lines 397-400: the tail from lastDate to asOf
LoanTail ==
  /\ AfterEvents
  /\ accrued' = Accrue(principal, accrued, dailyRate, lastDate, DateOf(asOf))
  /\ pc' = "floor"
  /\ UNCHANGED <<inputs, clock, enriched, runs, asOf, dailyRate, principal, interestPaid,
                 extraInterestPaid, events, lastDate, ei>>

\* the instant of line 403: asOf, not a second new Date()
ClockAgain == clock
FloorInstant == asOf

\* lines 403-410: the 30-day minimum interest
LoanFloor ==
  /\ AtFloor
  /\ accrued' = MinInterestFloor(Ledger, loan.amountGiven, dailyRate, loan.date, FloorInstant)
  /\ pc' = "ret"
  /\ UNCHANGED <<inputs, clock, enriched, runs, asOf, dailyRate, principal, interestPaid,
                 extraInterestPaid, events, lastDate, ei>>

\* lines 412-423: amountReceived, dueAmount and the returned view
LoanReturn ==
  /\ AtReturn
  /\ enriched' = Append(enriched, LoanView(loan, R(AmountReceived(events)), principal,
                                           RAdd(principal, accrued)))
  /\ runs' = Append(runs, [asOf |-> asOf, path |-> "ok"])
  /\ pc' = "map"
  /\ NoLocals
  /\ UNCHANGED <<inputs, clock>>

\* lines 460-479: one deposit's view; the catch leaves currentBalance at 0
DepositEnrich ==
  /\ AtDeposit
  /\ deposits' = [deposits EXCEPT ![cur].transactions =
                     IF DepositThrows(@) THEN @ ELSE ListAfterSort(@, SortTx(@))]
  /\ enriched' = Append(enriched, DepositView(deposits'[cur], CurrentBalance(deposits[cur])))
  /\ runs' = Append(runs, [asOf |-> 0,
                           path |-> IF DepositThrows(deposits[cur].transactions)
                                    THEN "catch" ELSE "ok"])
  /\ UNCHANGED <<req, loans, clock, pc, locals>>

\* lines 433-441 and 481-489: res.json with the enriched batch
Respond ==
  /\ Mapped
  /\ pc' = "done"
  /\ UNCHANGED <<inputs, clock, enriched, runs, locals>>

Next ==
  \/ Tick
  \/ LoanBegin
  \/ LoanAccrue
  \/ LoanAllocate
  \/ LoanCatch
  \/ LoanTail
  \/ LoanFloor
  \/ LoanReturn
  \/ DepositEnrich
  \/ Respond

Spec == Init /\ [][Next]_vars

TypeOK ==
  /\ pc \in {"map", "accrue", "alloc", "floor", "ret", "done"}
  /\ Len(enriched) = Len(runs)


\* -------------------------------------------------------------- C1
\* C1: a payment event (amount > 0) is allocated in strict order: the part
\* added to interestPaid is min(payment, accrued) and is taken off accrued,
\* the part taken off principal is min(remaining payment, principal), only
\* what is left after the principal is retired goes to extraInterestPaid,
\* the three parts sum to the payment, and the allocation step changes
\* nothing else (it ends with lastDate = evDate and moves to the next event).
C1_AllocationOrder ==
  [][(pc = "alloc" /\ pc' = "accrue" /\ events[ei].amount > 0) =>
       LET payment == R(events[ei].amount)
           interestPortion == RSub(interestPaid', interestPaid)
           principalPortion == RSub(principal, principal')
           extra == RSub(extraInterestPaid', extraInterestPaid)
       IN  /\ interestPortion = RMin(payment, accrued)
           /\ accrued' = RSub(accrued, interestPortion)
           /\ principalPortion = RMin(RSub(payment, interestPortion), principal)
           /\ extra = RSub(RSub(payment, interestPortion), principalPortion)
           /\ RLe(Zero, extra)
           /\ (RGt(extra, Zero) => principal' = Zero /\ accrued' = Zero)
           /\ RAdd(RAdd(interestPortion, principalPortion), extra) = payment
           /\ lastDate' = EvDate(events[ei])
           /\ UNCHANGED <<inputs, enriched, runs, asOf, dailyRate, events>>]_vars

\* a payment has just been split into three positive parts
C1_Witness ==
  /\ pc = "accrue" /\ ei = 2 /\ events[1].amount > 0
  /\ RGt(interestPaid, Zero) /\ RGt(extraInterestPaid, Zero)
  /\ principal = Zero /\ loan.amountGiven > 0

\* -------------------------------------------------------------- C2
ElapsedDays(l, now) == DaysBetween(DateOf(l.date), DateOf(now)).n

\* C2: a loan with zero repayment events and N whole elapsed days (clamped
\* at 0) is returned with remainingPrincipal = amountGiven and dueAmount =
\* amountGiven + amountGiven * dailyRate * N when N >= 30, and with
\* amountGiven + amountGiven * dailyRate * 30 when N < 30.
C2_NoEventDue ==
  req = "loans" =>
    \A i \in 1..Len(enriched) :
      loans[i].partialRepayments = <<>> =>
        LET N == ElapsedDays(loans[i], runs[i].asOf)
            given == R(loans[i].amountGiven)
            perDay == RMul(given, RDiv(RDiv(R(loans[i].interestRate), R(365)), R(100)))
        IN  /\ enriched[i].remainingPrincipal = given
            /\ enriched[i].dueAmount =
                 RAdd(given, RMul(perDay, R(IF N >= 30 THEN N ELSE 30)))

\* one request returned an event-free loan younger than 30 days and one older
C2_Witness ==
  /\ req = "loans"
  /\ \E i, j \in 1..Len(enriched) :
       /\ loans[i].partialRepayments = <<>> /\ loans[j].partialRepayments = <<>>
       /\ loans[i].amountGiven > 0 /\ loans[i].interestRate > 0
       /\ ElapsedDays(loans[i], runs[i].asOf) < 30
       /\ ElapsedDays(loans[j], runs[j].asOf) > 30
       /\ RGt(enriched[j].dueAmount, enriched[i].dueAmount)

\* -------------------------------------------------------------- C3
\* C3: the minimum-interest floor is one step, taken after the event walk
\* and the tail accrual and before the view is returned.  With
\* daysSinceStart < 30 and minInterest = amountGiven * dailyRate * 30 above
\* paidSoFar = interestPaid + extraInterestPaid + accrued it raises accrued
\* by minInterest - paidSoFar, so that the three sum to minInterest; in
\* every other case it leaves accrued alone; it never touches principal,
\* interestPaid or extraInterestPaid.
C3_FloorOnce ==
  [][/\ (pc' = "floor" /\ pc # "floor") => (pc = "accrue" /\ ei > Len(events))
     /\ (pc = "floor" /\ pc' # "floor") =>
          LET daysSinceStart == ElapsedDays(loan, asOf)
              minInterest == RMul(RMul(R(loan.amountGiven), dailyRate), R(30))
              paidSoFar == RAdd(RAdd(interestPaid, extraInterestPaid), accrued)
          IN  /\ pc' = "ret"
              /\ IF daysSinceStart < 30 /\ RGt(minInterest, paidSoFar)
                 THEN /\ accrued' = RAdd(accrued, RSub(minInterest, paidSoFar))
                      /\ RAdd(RAdd(interestPaid', extraInterestPaid'), accrued') = minInterest
                 ELSE accrued' = accrued
              /\ UNCHANGED <<principal, interestPaid, extraInterestPaid>>]_vars

\* the floor has raised accrued by 10 after a payment of 30 on day 10:
\* 100 accrued to day 10, 70 left, 190 more to day 29, 30 + 260 < 300
C3_Witness ==
  /\ pc = "ret" /\ Len(events) = 1 /\ ElapsedDays(loan, asOf) = 29
  /\ interestPaid = R(30) /\ accrued = R(270) /\ principal = R(100)


\* -------------------------------------------------------------- C4
InWalk == pc \in {"accrue", "alloc", "floor", "ret"}
HasValidDate(e) == ~e.null /\ e.date = "ok"
SameDateAs(e, list) == SelectSeq(list, LAMBDA x : x.t = e.t)

\* C4: the normaliser drops every entry that lacks a valid date (missing or
\* unparseable), so none reaches the walk, and returns the others ascending
\* by date with equal-date entries in their input order.
C4_NormalizerDropsInvalid ==
  InWalk =>
    LET valid == SelectSeq(loan.partialRepayments, HasValidDate)
    IN  /\ \A k \in 1..Len(events) : HasValidDate(events[k])
        /\ Len(events) = Len(valid)
        /\ \A k \in 1..(Len(events) - 1) : events[k].t <= events[k + 1].t
        /\ \A k \in 1..Len(valid) : SameDateAs(valid[k], events) = SameDateAs(valid[k], valid)

\* -------------------------------------------------------------- C5
RECURSIVE SumValidPayments(_)
SumValidPayments(list) ==
  IF list = <<>> THEN 0
  ELSE SumValidPayments(Tail(list))
       + (IF HasValidDate(Head(list)) /\ Head(list).amount > 0 THEN Head(list).amount ELSE 0)

\* C5: a returned loan view has amountReceived = the sum of the positive
\* amounts of the entries that have a valid date; entries without a valid
\* date and top-ups add nothing to it (stated for the views the success
\* path returns).
C5_ReceivedFromValidEvents ==
  req = "loans" =>
    \A i \in 1..Len(enriched) :
      runs[i].path = "ok" =>
        enriched[i].amountReceived = R(SumValidPayments(loans[i].partialRepayments))

\* -------------------------------------------------------------- C6
Batch == IF req = "loans" THEN loans ELSE deposits
Stored(view) == IF req = "loans" THEN view.loan ELSE view.deposit

\* some step of the handler (time passing aside) can be taken: each step's
\* effect is a total assignment, so a step is enabled when control is there
CanStep ==
  \/ AtLoan \/ AtEvent \/ Converts \/ Throws \/ AfterEvents
  \/ AtFloor \/ AtReturn \/ AtDeposit \/ Mapped

\* C6: a failure on one record never aborts the batch (the handler can
\* always go on until it responds) and never changes another record's view
\* (each view, checked whenever a callback has returned, is one its record
\* yields alone at the instant its callback read); a failing loan is returned with remainingPrincipal = dueAmount =
\* its stored amountGiven, a failing deposit with currentBalance = 0; the
\* response holds exactly one view per input record, in input order.
C6_FailureContained ==
  /\ pc # "done" => CanStep
  /\ Len(enriched) <= Len(Batch)
  /\ pc = "done" => Len(enriched) = Len(Batch)
  /\ \A i \in 1..Len(enriched) :
       /\ Stored(enriched[i]) = Batch[i]
       /\ (req = "loans" /\ runs[i].path = "catch") =>
            /\ enriched[i].remainingPrincipal = R(loans[i].amountGiven)
            /\ enriched[i].dueAmount = R(loans[i].amountGiven)
       /\ (req = "loans" /\ pc = "map") =>
            enriched[i] \in ViewOutcomes(loans[i], runs[i].asOf)
       /\ (req = "deposits" /\ runs[i].path = "catch") => enriched[i].currentBalance = 0
       /\ req = "deposits" =>
            enriched[i].currentBalance = CurrentBalance(deposits[i])

\* a batch answered in full after its first record failed mid-walk and its
\* second, with events of its own, was computed
C6_Witness ==
  /\ pc = "done" /\ req = "loans" /\ Len(loans) = 2 /\ Len(enriched) = 2
  /\ runs[1].path = "catch" /\ runs[2].path = "ok"
  /\ Len(loans[2].partialRepayments) = 2
  /\ loans[1].name # loans[2].name
  /\ enriched[2].dueAmount # R(loans[2].amountGiven)


\* -------------------------------------------------------------- C7
\* the index of the entry that is last in the order Leq, the later in the
\* list among equals
LastBy(txs, Leq(_, _)) ==
  CHOOSE m \in 1..Len(txs) :
    /\ \A j \in 1..Len(txs) : Leq(txs[j], txs[m])
    /\ \A j \in (m + 1)..Len(txs) : ~Leq(txs[m], txs[j])

\* deposits minus withdrawals, in any order
RECURSIVE NetOf(_)
NetOf(txs) ==
  IF txs = <<>> THEN 0
  ELSE NetOf(Tail(txs)) + (CASE Head(txs).type = "Deposit" -> Head(txs).amount
                             [] Head(txs).type = "Withdrawal" -> -Head(txs).amount
                             [] OTHER -> 0)

\* the balance the recorded-balance rule gives when Leq is the date order
BalanceBy(txs, Leq(_, _)) ==
  IF txs = <<>> THEN 0
  ELSE IF txs[LastBy(txs, Leq)].hasBalance THEN txs[LastBy(txs, Leq)].balanceAfter
  ELSE NetOf(txs)

\* a missing date counts as the epoch
EpochOrder(a, b) == (IF a.dated THEN a.t ELSE 0) <= (IF b.dated THEN b.t ELSE 0)
\* a missing date comes before every date
MissingFirstOrder(a, b) == ~a.dated \/ (b.dated /\ a.t <= b.t)

\* C7 as amended: a transaction lacking a date is placed at the epoch (so
\* after the transactions dated before the epoch); if the last transaction
\* in that order, the later in the list among equal dates, carries a
\* numeric balanceAfter, currentBalance is that value; otherwise it is the
\* sum of the Deposit amounts minus the Withdrawal amounts, other kinds
\* ignored; an empty list gives 0.
C7_BalanceEpochOrder ==
  req = "deposits" =>
    \A i \in 1..Len(enriched) :
      runs[i].path = "ok" =>
        enriched[i].currentBalance = BalanceBy(deposits[i].transactions, EpochOrder)

\* C7: the same with a transaction lacking a date sorting as earliest
C7_BalanceMissingFirst ==
  req = "deposits" =>
    \A i \in 1..Len(enriched) :
      runs[i].path = "ok" =>
        enriched[i].currentBalance = BalanceBy(deposits[i].transactions, MissingFirstOrder)

\* the recorded balance of an undated transaction was returned although a
\* transaction dated before the epoch is in the list and the fold differs
C7_Witness ==
  /\ req = "deposits"
  /\ \E i \in 1..Len(enriched) :
       LET txs == deposits[i].transactions
       IN  /\ Len(txs) = 2 /\ runs[i].path = "ok"
           /\ \E a, b \in 1..2 : /\ ~txs[a].dated /\ txs[a].hasBalance
                                 /\ txs[b].dated /\ txs[b].t < 0 /\ ~txs[b].hasBalance
                                 /\ enriched[i].currentBalance = txs[a].balanceAfter
           /\ enriched[i].currentBalance # NetOf(txs)

SameComputed(v, w) ==
  /\ v.amountReceived = w.amountReceived
  /\ v.remainingPrincipal = w.remainingPrincipal
  /\ v.dueAmount = w.dueAmount

\* the list raw rearranged by the permutation p of its indices
Rearranged(raw, p) == [k \in 1..Len(raw) |-> raw[p[k]]]

\* p keeps the entries that pass the filter and share a date in their order
KeepsTieOrder(raw, p) ==
  \A a, b \in 1..Len(raw) :
    (a < b /\ Keeps(raw[p[a]]) /\ Keeps(raw[p[b]]) /\ raw[p[a]].t = raw[p[b]].t)
      => p[a] < p[b]

AllDatesParse(raw) == \A k \in 1..Len(raw) : Keeps(raw[k]) => raw[k].date = "ok"

\* every view the callback can return for loans[i] with its list rearranged
\* by p, at the instant view i was computed, has the computed fields of view i
SameUnder(i, p) ==
  \A v \in ViewOutcomes([loans[i] EXCEPT !.partialRepayments = Rearranged(@, p)],
                        runs[i].asOf) :
    SameComputed(v, enriched[i])

\* C9 as amended: for a loan whose dated entries all have parseable dates,
\* every rearrangement of partialRepayments that keeps the relative order
\* of the entries sharing a date returns the same remainingPrincipal,
\* dueAmount and amountReceived.
C9_OrderUpToTies ==
  (pc = "done" /\ req = "loans") =>
    \A i \in 1..Len(enriched) :
      AllDatesParse(loans[i].partialRepayments) =>
        \A p \in Permutations(1..Len(loans[i].partialRepayments)) :
          KeepsTieOrder(loans[i].partialRepayments, p) => SameUnder(i, p)

\* C9: every permutation of partialRepayments returns the same
\* remainingPrincipal, dueAmount and amountReceived (stated for the loans
\* whose dated entries all have parseable dates).
C9_AnyOrder ==
  (pc = "done" /\ req = "loans") =>
    \A i \in 1..Len(enriched) :
      AllDatesParse(loans[i].partialRepayments) =>
        \A p \in Permutations(1..Len(loans[i].partialRepayments)) : SameUnder(i, p)

\* a view was computed from a payment listed before an earlier top-up
C9_Witness ==
  /\ pc = "done" /\ req = "loans" /\ Len(enriched) = 1 /\ runs[1].path = "ok"
  /\ loans[1].partialRepayments = <<Ev(250, Day(40)), Ev(-50, Day(10))>>
  /\ loans[1].amountGiven = 100 /\ loans[1].interestRate > 0
  /\ runs[1].asOf = Day(45)

\* ------------------------------------------------------------- C10
\* the ledger event k of the walk met, its interest to that date accrued
LedgerAt(k) ==
  LET B == WalkEvents(InitialLedger(loan), dailyRate, SubSeq(events, 1, k - 1))
  IN  [B EXCEPT !.accrued = Accrue(B.principal, B.accrued, dailyRate, B.lastDate,
                                   EvDate(events[k]))]

\* what a payment of amount leaves after the accrued interest and the principal of L
Remainder(L, amount) == RSub(R(amount), RAdd(L.accrued, L.principal))

\* event k has been walked and was a payment above accrued plus principal
Overpays(k) ==
  /\ k \in 1..Len(events) /\ k < ei
  /\ events[k].amount > 0
  /\ RGt(Remainder(LedgerAt(k), events[k].amount), Zero)

\* what the 30-day minimum adds when nothing is accrued
Shortfall ==
  LET minInterest == RMul(RMul(R(loan.amountGiven), dailyRate), R(30))
      paid == RAdd(interestPaid, extraInterestPaid)
  IN  IF ElapsedDays(loan, asOf) < 30 /\ RGt(minInterest, paid)
      THEN RSub(minInterest, paid) ELSE Zero

\* right after an overpaying event: both zeroed, the remainder added to
\* extraInterestPaid
ZeroedByOverpayment ==
  (pc = "accrue" /\ ei > 1 /\ Overpays(ei - 1)) =>
    /\ principal = Zero /\ accrued = Zero
    /\ extraInterestPaid =
         RAdd(LedgerAt(ei - 1).extraInterestPaid,
              Remainder(LedgerAt(ei - 1), events[ei - 1].amount))

\* C10 as amended: a payment above accrued plus principal zeroes both and
\* adds the remainder to extraInterestPaid; if it is the last event, the
\* tail accrues nothing and dueAmount is what the 30-day minimum adds:
\* amountGiven * dailyRate * 30 - (interestPaid + extraInterestPaid) when
\* fewer than 30 days have elapsed and that is positive, 0 otherwise.
C10_OverpaymentDue ==
  /\ ZeroedByOverpayment
  /\ (pc = "floor" /\ Overpays(Len(events))) => (principal = Zero /\ accrued = Zero)
  /\ (pc = "ret" /\ Overpays(Len(events))) =>
       (principal = Zero /\ RAdd(principal, accrued) = Shortfall)

\* C10: ... if it is the last event, dueAmount is 0 plus the tail accrual,
\* which is nothing while principal is 0.
C10_OverpaymentDueZero ==
  /\ ZeroedByOverpayment
  /\ (pc = "floor" /\ Overpays(Len(events))) => (principal = Zero /\ accrued = Zero)
  /\ (pc = "ret" /\ Overpays(Len(events))) => RAdd(principal, accrued) = Zero

\* 250 paid on day 10 against 100 accrued and 100 principal, read on day
\* 29: 150 of the 300 minimum is still due
C10_Witness ==
  /\ pc = "ret" /\ Len(events) = 1 /\ Overpays(1)
  /\ ElapsedDays(loan, asOf) = 29
  /\ principal = Zero /\ accrued = R(150) /\ extraInterestPaid = R(50)

\* ---------------------------------------------------------------------
\* C11

\* the amounts of the events that are not top-ups, summed
RECURSIVE SumWithoutTopUps(_)
SumWithoutTopUps(evs) ==
  IF evs = <<>> THEN 0
  ELSE SumWithoutTopUps(Tail(evs)) + (IF Head(evs).amount < 0 THEN 0 ELSE Head(evs).amount)

\* the step that applies a top-up of T
TopUpStep(T) ==
  /\ pc = "alloc" /\ pc' = "accrue"
  /\ events[ei].amount = -T

\* C11: a top-up event of amount -T, T > 0, raises the running principal
\* by exactly T and allocates nothing: the accrued interest left by its
\* day-count step, interestPaid and extraInterestPaid stay as they are,
\* and the top-up adds nothing to the amountReceived of the view.
C11_TopUpOnlyRaisesPrincipal ==
  [][/\ \A T \in 1..50 :
          TopUpStep(T) =>
            /\ principal' = RAdd(principal, R(T))
            /\ accrued' = accrued
            /\ interestPaid' = interestPaid
            /\ extraInterestPaid' = extraInterestPaid
     /\ (pc = "ret" /\ pc' = "map") =>
          enriched'[Len(enriched')].amountReceived = R(SumWithoutTopUps(events))]_vars

\* a top-up has been applied after interest accrued and a payment was
\* allocated before it
C11_Witness ==
  /\ pc = "accrue" /\ ei = 3
  /\ events[2].amount < 0
  /\ events[1].amount > 0
  /\ RGt(accrued, Zero) /\ RGt(interestPaid, Zero)
  /\ RGt(principal, R(100))

\* ---------------------------------------------------------------------
\* C12

\* the view carries every stored field of its record with the stored value
PassesThrough(view, record) ==
  IF req = "loans"
  THEN /\ view.loan.name = record.name
       /\ view.loan.amountGiven = record.amountGiven
       /\ view.loan.interestRate = record.interestRate
       /\ view.loan.date = record.date
       /\ view.loan.partialRepayments = record.partialRepayments
  ELSE /\ view.deposit.name = record.name
       /\ view.deposit.transactions = record.transactions

\* C12: enrichment only adds computed fields.  On the success path and on
\* the fallback path every stored field of a loan other than the computed
\* ones, and every stored field of a deposit other than currentBalance, is
\* in the view with its stored value, and no step changes the stored
\* records: the order of partialRepayments and of transactions included.
C12_OnlyAddsComputedFields ==
  [][/\ loans' = loans
     /\ deposits' = deposits
     /\ \A i \in 1..Len(enriched') : PassesThrough(enriched'[i], Batch[i])]_vars

\* a loan whose stored events are out of date order and partly filtered
\* out has been viewed on the success path
C12_Witness ==
  /\ req = "loans" /\ pc = "done"
  /\ Len(enriched) = 1 /\ runs[1].path = "ok"
  /\ Len(loans[1].partialRepayments) = 2
  /\ loans[1].partialRepayments[1].date = "ok"
  /\ loans[1].partialRepayments[2].date = "ok"
  /\ loans[1].partialRepayments[1].t > loans[1].partialRepayments[2].t
  /\ enriched[1].loan = loans[1]

\* ---------------------------------------------------------------------
\* C13

NonNegative(x) == RLe(Zero, x)

\* C13: with amountGiven >= 0 and interestRate >= 0, principal, accrued,
\* interestPaid and extraInterestPaid are >= 0 in every state of the walk,
\* after the tail accrual and after the minimum-interest floor; so every
\* successful view has remainingPrincipal >= 0 and dueAmount >=
\* remainingPrincipal.
C13_LedgerNonNegative ==
  /\ (InWalk /\ loan.amountGiven >= 0 /\ loan.interestRate >= 0) =>
       /\ NonNegative(principal) /\ NonNegative(accrued)
       /\ NonNegative(interestPaid) /\ NonNegative(extraInterestPaid)
  /\ req = "loans" =>
       \A i \in 1..Len(enriched) :
         (runs[i].path = "ok" /\ loans[i].amountGiven >= 0 /\ loans[i].interestRate >= 0) =>
           /\ NonNegative(enriched[i].remainingPrincipal)
           /\ RLe(enriched[i].remainingPrincipal, enriched[i].dueAmount)

\* a payment larger than accrued plus principal has been allocated, later
\* interest-free days have passed, and the view is about to be returned
C13_Witness ==
  /\ pc = "ret"
  /\ Len(events) >= 1
  /\ principal = Zero /\ RGt(extraInterestPaid, Zero) /\ RGt(interestPaid, Zero)
  /\ DaysBetween(lastDate, DateOf(asOf)).n > 0

\* ---------------------------------------------------------------------
\* C14

\* the sum of the positive amounts and of the top-up magnitudes of a list
RECURSIVE SumPayments(_)
SumPayments(evs) ==
  IF evs = <<>> THEN 0
  ELSE SumPayments(Tail(evs)) + (IF Head(evs).amount > 0 THEN Head(evs).amount ELSE 0)
RECURSIVE SumTopUps(_)
SumTopUps(evs) ==
  IF evs = <<>> THEN 0
  ELSE SumTopUps(Tail(evs)) + (IF Head(evs).amount < 0 THEN -Head(evs).amount ELSE 0)

\* the events the walk has applied so far
Applied == SubSeq(events, 1, ei - 1)

\* amountGiven + top-ups - principal left
PrincipalRepaid(given, evs, remaining) ==
  RSub(RAdd(R(given), R(SumTopUps(evs))), remaining)

\* C14: conservation.  After any sequence of normalized events the sum of
\* the positive event amounts equals interestPaid + extraInterestPaid +
\* principalRepaid, where principalRepaid is amountGiven plus the top-up
\* magnitudes minus the remaining principal; in a successful view
\* amountReceived is that sum over all the events.
C14_Conservation ==
  /\ InWalk =>
       R(SumPayments(Applied)) =
         RAdd(RAdd(interestPaid, extraInterestPaid),
              PrincipalRepaid(loan.amountGiven, Applied, principal))
  /\ pc = "ret" =>
       /\ Applied = events
       /\ R(AmountReceived(events)) = R(SumPayments(Applied))

\* every kind of flow is in the books: a top-up, interest paid, principal
\* repaid and an overpayment
C14_Witness ==
  /\ pc = "ret"
  /\ SumTopUps(events) > 0
  /\ RGt(interestPaid, Zero) /\ RGt(extraInterestPaid, Zero)
  /\ principal = Zero

\* ---------------------------------------------------------------------
\* C15

\* the day counts of the walk from `from` over evs and of the tail to now,
\* added up
RECURSIVE DaysCharged(_, _, _)
DaysCharged(from, evs, now) ==
  IF evs = <<>> THEN DaysBetween(from, DateOf(now)).n
  ELSE DaysBetween(from, EvDate(Head(evs))).n + DaysCharged(EvDate(Head(evs)), Tail(evs), now)

\* C15: interest is never charged for more days than the loan has existed.
\* For every loan and normalized event list, events dated before the
\* origination date or after the as-of instant included, the per-event
\* elapsed days plus the tail days are at most the whole days from the
\* origination date to asOf, clamped at 0.
C15_DaysWithinLoanAge ==
  pc \in {"floor", "ret"} =>
    DaysCharged(DateOf(loan.date), events, asOf) <= ElapsedDays(loan, asOf)

====
